---- MODULE Spec2Model ----
(***************************************************************************)
(* Authentication flow of the school API: the Express pipeline of          *)
(* src/index.js, the auth router, the authenticate middleware and the      *)
(* register / login / getAllUsers handlers.                                *)
(*                                                                         *)
(* At most MaxInFlight requests are being handled at a time; the request   *)
(* and response objects of a request live in one of the slots Requests     *)
(* until a later request takes the slot.  A handler is cut at its awaits:  *)
(* each action is one awaited call completing together with the            *)
(* continuation that runs up to the next await (or to the response).  The  *)
(* middleware is synchronous and is one action.                            *)
(***************************************************************************)
EXTENDS Integers, Sequences, FiniteSets, TLC

\* ------------------------------------------------------------------ bounds
MaxRequests == 3        \* requests received in one behaviour
MaxInFlight == 2        \* requests handled at the same time
MaxTicks == 2           \* clock advances in one behaviour

Requests == 1..MaxInFlight
Emails == {"a@x", "b@x"}
Passwords == {"pw1", "pw2"}
Names == {"n"}

\* ------------------------------------------------------- program constants
ControllerDefaultSecret == "IamJack21"
MiddlewareDefaultSecret == "chaewon"
ExpiresIn == 3600       \* jwt.sign(..., { expiresIn: "1h" }), in seconds
TickSeconds == ExpiresIn \div 2    \* the clock advances by half a token lifetime
SaltRounds == 10        \* bcrypt.hash(password, 10)

\* process.env.JWT_SECRET: "" stands for "not supplied"
EnvSecrets == {"", "s3cret"}

VARIABLES
    env,        \* process.env.JWT_SECRET, fixed at start-up
    now,        \* wall clock, seconds
    users,      \* rows of the User table
    nreq,       \* requests received so far
    pc,         \* per request: the stage (await point) it is at
    req,        \* per request: method, path, authorization header, body
    reqUser,    \* per request: req.user, {} while unset
    local,      \* per request: the handler's locals ({} while unset) and the error it threw
    res,        \* per request: the response object
    issued,     \* tokens that login has handed to clients
    seq,        \* per request: its arrival number (0 while the slot is unused)
    before,     \* per request: the User table when the request arrived
    ok201       \* per email: the 201 responses register has sent

vars == <<env, now, users, nreq, pc, req, reqUser, local, res, issued,
          seq, before, ok201>>

\* ------------------------------------------------------------ the secrets
\* const SECRET = process.env.JWT_SECRET || "IamJack21";
ControllerSECRET == IF env # "" THEN env ELSE ControllerDefaultSecret

\* const SECRET = process.env.JWT_SECRET || 'chaewon';
MiddlewareSECRET == IF env # "" THEN env ELSE MiddlewareDefaultSecret

\* ----------------------------------------------------------------- bcrypt
\* bcrypt.hash(password, 10): a one-way hash, never equal to the plaintext
BcryptHash(password) == [alg |-> "bcrypt", rounds |-> SaltRounds, of |-> password]

\* bcrypt.compare(password, hash)
BcryptCompare(password, hash) == hash.of = password

\* ----------------------------------------------------------- jsonwebtoken
NoPayload == [id |-> 0, email |-> "", iat |-> 0, exp |-> 0]

\* jwt.sign(claims, secret, { expiresIn }): header.payload.signature, the
\* signature being a MAC of the payload under the secret
JwtSign(claims, secret, t) ==
    LET payload == [id |-> claims.id, email |-> claims.email,
                    iat |-> t, exp |-> t + ExpiresIn]
    IN [kind |-> "jwt", payload |-> payload, key |-> secret, signed |-> payload]

\* a string that is no JWT at all
Garbage == [kind |-> "garbage", payload |-> NoPayload, key |-> "", signed |-> NoPayload]
\* the empty string between two consecutive spaces of a header
EmptySegment == [kind |-> "empty", payload |-> NoPayload, key |-> "", signed |-> NoPayload]
\* the word "Bearer"
Bearer == [kind |-> "scheme", payload |-> NoPayload, key |-> "", signed |-> NoPayload]

\* a client rewrites the subject of a token and keeps the signature
Tamper(tok) == [tok EXCEPT !.payload.id = @ + 1]

SignatureVerifies(tok, secret) ==
    tok.kind = "jwt" /\ tok.key = secret /\ tok.signed = tok.payload

\* variant: a token still passes at the very second of its expiry
JwtVerifyStrictAfter(tok, secret, t) ==
    [ok |-> SignatureVerifies(tok, secret) /\ ~(t > tok.payload.exp),
     decoded |-> tok.payload]

\* jwt.verify(token, secret): throws (ok = FALSE) on a malformed token, a bad
\* signature, or clockTimestamp >= exp; otherwise returns the payload
JwtVerify(tok, secret, t) ==
    [ok |-> SignatureVerifies(tok, secret) /\ ~(t >= tok.payload.exp),
     decoded |-> tok.payload]

\* ------------------------------------------------------------ the request
\* req.headers.authorization, as the segments authHeader.split(' ') yields
NoHeader == [present |-> FALSE, segs |-> << >>]
HeaderOf(segs) == [present |-> TRUE, segs |-> segs]

\* authHeader.split(' ')[1]: {} when undefined
TokenSegment(h) == IF Len(h.segs) >= 2 THEN {h.segs[2]} ELSE {}

\* !token: undefined or the empty string
Falsy(seg) == seg = {} \/ (\E t \in seg : t.kind = "empty")

NoRequest == [method |-> "", path |-> "", auth |-> NoHeader,
              name |-> "", email |-> "", password |-> ""]

\* ----------------------------------------------------------- the response
NoResponse == [status |-> 0, sent |-> FALSE, message |-> "",
               token |-> {}, user |-> {}, users |-> {}]

\* res.status(s).json({ message })
JsonMessage(s, m) == [NoResponse EXCEPT !.status = s, !.sent = TRUE, !.message = m]

\* res.status(s) alone: the status is set, nothing is written yet
StatusOnly(s) == [NoResponse EXCEPT !.status = s]

\* --------------------------------------------------------------- routing
Paths == {"/auth/register", "/auth/login", "/auth/users",
          "/students", "/courses", "/teachers"}
Methods == {"GET", "POST"}
ResourcePaths == {"/students", "/courses", "/teachers"}

\* variant: the resource routers registered ahead of app.use(authenticate)
PipelineGateAfterRoutes(m, p) ==
    IF p = "/auth/register" /\ m = "POST" THEN <<"register">>
    ELSE IF p = "/auth/login" /\ m = "POST" THEN <<"login">>
    ELSE IF p = "/auth/users" /\ m = "GET" THEN <<"authenticate", "getAllUsers">>
    ELSE IF p \in ResourcePaths THEN <<"resource">>
    ELSE <<"authenticate", "notFound">>

\* The stages Express runs for a request, in registration order: the /auth
\* router first (register and login bare, users behind authenticate), then
\* the app-wide authenticate, then the resource routers; a request no route
\* answers falls through to Express's 404.
Pipeline(m, p) ==
    IF p = "/auth/register" /\ m = "POST" THEN <<"register">>
    ELSE IF p = "/auth/login" /\ m = "POST" THEN <<"login">>
    ELSE IF p = "/auth/users" /\ m = "GET" THEN <<"authenticate", "getAllUsers">>
    ELSE IF p \in ResourcePaths THEN <<"authenticate", "resource">>
    ELSE <<"authenticate", "notFound">>

\* ------------------------------------------------------- credential store
\* User.findOne({ where: { email } }): {} when null
StoreFindOne(email) == {u \in users : u.email = email}

\* the unique-email constraint of the User table
StoreUniqueViolation(email) == \E u \in users : u.email = email

\* the row User.create({ name, email, password }) inserts
StoreNewRow(name, email, hashed) ==
    [id |-> Cardinality(users) + 1, name |-> name, email |-> email, password |-> hashed]

\* User.findAll({ attributes }): every row, cut down to the attributes
StoreFindAll(attributes) == {[a \in attributes |-> u[a]] : u \in users}

\* ------------------------------------------------------------------- Init
Init ==
    /\ env \in EnvSecrets
    /\ now = 0
    /\ users = {}
    /\ nreq = 0
    /\ pc = [r \in Requests |-> "idle"]
    /\ req = [r \in Requests |-> NoRequest]
    /\ reqUser = [r \in Requests |-> {}]
    /\ local = [r \in Requests |-> [user |-> {}, hashed |-> {}, thrown |-> ""]]
    /\ res = [r \in Requests |-> NoResponse]
    /\ issued = {}
    /\ seq = [r \in Requests |-> 0]
    /\ before = [r \in Requests |-> {}]
    /\ ok201 = [e \in Emails |-> 0]

\* ------------------------------------------------------------ the clients
\* the secrets an outsider can sign with: the middleware's published default
ForeignSecrets == {MiddlewareDefaultSecret}

\* what a client can put after "Bearer "
ClientTokens ==
    issued \cup {Tamper(t) : t \in issued} \cup {Garbage}
    \cup {JwtSign([id |-> 1, email |-> "a@x"], k, now) : k \in ForeignSecrets}

ClientHeaders ==
    {NoHeader, HeaderOf(<<Bearer>>), HeaderOf(<<Bearer, EmptySegment, Garbage>>)}
    \cup {HeaderOf(<<Bearer, t>>) : t \in ClientTokens}

Ended == {"done", "threw", "rejected"}
InFlight(r) == pc[r] \notin Ended \cup {"idle"}
NoLocals == [user |-> {}, hashed |-> {}, thrown |-> ""]

\* a request arrives, with fresh request and response objects, and Express
\* dispatches it to the first stage of its pipeline
Arrive(r, m, p, h, n, e, pw) ==
    /\ nreq < MaxRequests
    /\ ~InFlight(r)
    /\ nreq' = nreq + 1
    /\ req' = [req EXCEPT ![r] = [method |-> m, path |-> p, auth |-> h,
                                  name |-> n, email |-> e, password |-> pw]]
    /\ pc' = [pc EXCEPT ![r] = Pipeline(m, p)[1]]
    /\ reqUser' = [reqUser EXCEPT ![r] = {}]
    /\ local' = [local EXCEPT ![r] = NoLocals]
    /\ res' = [res EXCEPT ![r] = NoResponse]
    /\ seq' = [seq EXCEPT ![r] = nreq + 1]
    /\ before' = [before EXCEPT ![r] = users]
    /\ UNCHANGED <<env, now, users, issued, ok201>>

Tick ==
    /\ now < MaxTicks * TickSeconds
    /\ now' = now + TickSeconds
    /\ UNCHANGED <<env, users, nreq, pc, req, reqUser, local, res, issued, seq, before, ok201>>

\* ---------------------------------------------------------- authenticate
\* variant: a request without header is passed on to next()
AuthenticateOptional(r) ==
    /\ pc[r] = "authenticate"
    /\ LET authHeader == req[r].auth
           token == TokenSegment(authHeader)
           secondStage == Pipeline(req[r].method, req[r].path)[2]
       IN IF ~authHeader.present
          THEN /\ pc' = [pc EXCEPT ![r] = secondStage]
               /\ UNCHANGED <<res, reqUser>>
          ELSE IF Falsy(token)
          THEN /\ res' = [res EXCEPT ![r] = StatusOnly(401)]
               /\ pc' = [pc EXCEPT ![r] = "threw"]
               /\ UNCHANGED reqUser
          ELSE LET v == JwtVerify(CHOOSE t \in token : TRUE, MiddlewareSECRET, now)
               IN IF v.ok
                  THEN /\ reqUser' = [reqUser EXCEPT ![r] = {v.decoded}]
                       /\ pc' = [pc EXCEPT ![r] = secondStage]
                       /\ UNCHANGED res
                  ELSE /\ res' = [res EXCEPT ![r] = JsonMessage(401, "Invalid token")]
                       /\ pc' = [pc EXCEPT ![r] = "done"]
                       /\ UNCHANGED reqUser
    /\ UNCHANGED <<env, now, users, nreq, req, local, issued, seq, before, ok201>>

\* The middleware, synchronous from the header check to next() or the 401.
\* On a missing token segment the code calls res.status(401).jjson(...):
\* the status is set, jjson is undefined, and the call throws a TypeError
\* out of the middleware before anything is written.
Authenticate(r) ==
    /\ pc[r] = "authenticate"
    /\ LET authHeader == req[r].auth
           token == TokenSegment(authHeader)
           secondStage == Pipeline(req[r].method, req[r].path)[2]
       IN IF ~authHeader.present
          THEN /\ res' = [res EXCEPT ![r] = JsonMessage(401, "No token provided")]
               /\ pc' = [pc EXCEPT ![r] = "done"]
               /\ UNCHANGED reqUser
          ELSE IF Falsy(token)
          THEN /\ res' = [res EXCEPT ![r] = StatusOnly(401)]
               /\ pc' = [pc EXCEPT ![r] = "threw"]
               /\ UNCHANGED reqUser
          ELSE LET v == JwtVerify(CHOOSE t \in token : TRUE, MiddlewareSECRET, now)
               IN IF v.ok
                  THEN /\ reqUser' = [reqUser EXCEPT ![r] = {v.decoded}]
                       /\ pc' = [pc EXCEPT ![r] = secondStage]
                       /\ UNCHANGED res
                  ELSE /\ res' = [res EXCEPT ![r] = JsonMessage(401, "Invalid token")]
                       /\ pc' = [pc EXCEPT ![r] = "done"]
                       /\ UNCHANGED reqUser
    /\ UNCHANGED <<env, now, users, nreq, req, local, issued, seq, before, ok201>>

\* --------------------------------------------------------------- register
Finish(r, response) ==
    /\ res' = [res EXCEPT ![r] = response]
    /\ pc' = [pc EXCEPT ![r] = "done"]

\* variant: the result of the lookup is not tested
RegisterFindOneNoCheck(r) ==
    /\ pc[r] = "register"
    /\ pc' = [pc EXCEPT ![r] = "register_hash"]
    /\ UNCHANGED <<env, now, users, nreq, req, reqUser, local, res, issued, seq, before, ok201>>

\* const exists = await User.findOne(...); if (exists) return 400
RegisterFindOne(r) ==
    /\ pc[r] = "register"
    /\ LET exists == StoreFindOne(req[r].email)
       IN IF exists # {}
          THEN Finish(r, JsonMessage(400, "Email already exists"))
          ELSE /\ pc' = [pc EXCEPT ![r] = "register_hash"]
               /\ UNCHANGED res
    /\ UNCHANGED <<env, now, users, nreq, req, reqUser, local, issued, seq, before, ok201>>

\* const hashedPassword = await bcrypt.hash(password, 10)
RegisterHash(r) ==
    /\ pc[r] = "register_hash"
    /\ local' = [local EXCEPT ![r].hashed = {BcryptHash(req[r].password)}]
    /\ pc' = [pc EXCEPT ![r] = "register_create"]
    /\ UNCHANGED <<env, now, users, nreq, req, reqUser, res, issued, seq, before, ok201>>

\* res.status(201).json({ message, user: { id: user.id, email: user.email } })
Registered(user) ==
    [JsonMessage(201, "User registered") EXCEPT
        !.user = {[id |-> user.id, email |-> user.email]}]

\* variant: the 201 is sent whatever becomes of the create
RegisterCreateNoAwait(r) ==
    /\ pc[r] = "register_create"
    /\ LET hashedPassword == CHOOSE h \in local[r].hashed : TRUE
           user == StoreNewRow(req[r].name, req[r].email, hashedPassword)
       IN /\ users' = IF StoreUniqueViolation(req[r].email) THEN users
                      ELSE users \cup {user}
          /\ local' = [local EXCEPT ![r].user = {user}]
          /\ Finish(r, Registered(user))
          /\ ok201' = [ok201 EXCEPT ![req[r].email] = @ + 1]
    /\ UNCHANGED <<env, now, nreq, req, reqUser, issued, seq, before>>

\* const user = await User.create({ name, email, password: hashedPassword });
\* then the 201.  A create the store refuses rejects the handler's promise:
\* nothing in the handler catches it and no response is written.
RegisterCreate(r) ==
    /\ pc[r] = "register_create"
    /\ LET hashedPassword == CHOOSE h \in local[r].hashed : TRUE
           user == StoreNewRow(req[r].name, req[r].email, hashedPassword)
       IN IF StoreUniqueViolation(req[r].email)
          THEN /\ pc' = [pc EXCEPT ![r] = "rejected"]
               /\ local' = [local EXCEPT ![r].thrown = "SequelizeUniqueConstraintError"]
               /\ UNCHANGED <<users, res, ok201>>
          ELSE /\ users' = users \cup {user}
               /\ local' = [local EXCEPT ![r].user = {user}]
               /\ Finish(r, Registered(user))
               /\ ok201' = [ok201 EXCEPT ![req[r].email] = @ + 1]
    /\ UNCHANGED <<env, now, nreq, req, reqUser, issued, seq, before>>

\* ------------------------------------------------------------------ login
\* const user = await User.findOne(...); if (!user) return 404
LoginFindOne(r) ==
    /\ pc[r] = "login"
    /\ LET user == StoreFindOne(req[r].email)
       IN IF user = {}
          THEN /\ Finish(r, JsonMessage(404, "User not found"))
               /\ UNCHANGED local
          ELSE /\ local' = [local EXCEPT ![r].user = {CHOOSE u \in user : TRUE}]
               /\ pc' = [pc EXCEPT ![r] = "login_compare"]
               /\ UNCHANGED res
    /\ UNCHANGED <<env, now, users, nreq, req, reqUser, issued, seq, before, ok201>>

\* res.json({ token, user: { id: user.id, email: user.email } })
LoggedIn(token, user) ==
    [NoResponse EXCEPT !.status = 200, !.sent = TRUE, !.token = {token},
                       !.user = {[id |-> user.id, email |-> user.email]}]

\* variant: the result of the comparison is not tested
LoginCompareIgnoreValid(r) ==
    /\ pc[r] = "login_compare"
    /\ LET user == CHOOSE u \in local[r].user : TRUE
           token == JwtSign([id |-> user.id, email |-> user.email], ControllerSECRET, now)
       IN /\ Finish(r, LoggedIn(token, user))
          /\ issued' = issued \cup {token}
    /\ UNCHANGED <<env, now, users, nreq, req, reqUser, local, seq, before, ok201>>

\* const valid = await bcrypt.compare(password, user.password);
\* if (!valid) return 401; otherwise sign the token and answer 200
LoginCompare(r) ==
    /\ pc[r] = "login_compare"
    /\ LET user == CHOOSE u \in local[r].user : TRUE
           valid == BcryptCompare(req[r].password, user.password)
           token == JwtSign([id |-> user.id, email |-> user.email], ControllerSECRET, now)
       IN IF ~valid
          THEN /\ Finish(r, JsonMessage(401, "Invalid email or password"))
               /\ UNCHANGED issued
          ELSE /\ Finish(r, LoggedIn(token, user))
               /\ issued' = issued \cup {token}
    /\ UNCHANGED <<env, now, users, nreq, req, reqUser, local, seq, before, ok201>>

\* ------------------------------------------------------------ getAllUsers
\* variant: findAll without the attribute list
GetAllUsersEveryAttribute(r) ==
    /\ pc[r] = "getAllUsers"
    /\ Finish(r, [NoResponse EXCEPT !.status = 200, !.sent = TRUE,
                     !.users = StoreFindAll({"id", "name", "email", "password"})])
    /\ UNCHANGED <<env, now, users, nreq, req, reqUser, local, issued, seq, before, ok201>>

\* const users = await User.findAll({ attributes: [...] }); res.json(users)
GetAllUsers(r) ==
    /\ pc[r] = "getAllUsers"
    /\ Finish(r, [NoResponse EXCEPT !.status = 200, !.sent = TRUE,
                     !.users = StoreFindAll({"id", "name", "email"})])
    /\ UNCHANGED <<env, now, users, nreq, req, reqUser, local, issued, seq, before, ok201>>

\* -------------------------------------------------- the other destinations
\* a student, course or teacher handler answers
Resource(r) ==
    /\ pc[r] = "resource"
    /\ Finish(r, JsonMessage(200, "resource"))
    /\ UNCHANGED <<env, now, users, nreq, req, reqUser, local, issued, seq, before, ok201>>

\* no route of the application answers: Express's 404
NotFound(r) ==
    /\ pc[r] = "notFound"
    /\ Finish(r, [NoResponse EXCEPT !.status = 404, !.sent = TRUE])
    /\ UNCHANGED <<env, now, users, nreq, req, reqUser, local, issued, seq, before, ok201>>

\* ----------------------------------------------------------------- faults
\* the awaits of the three handlers: findOne, bcrypt.hash, create,
\* findOne, bcrypt.compare, findAll
AwaitPoints == {"register", "register_hash", "register_create",
                "login", "login_compare", "getAllUsers"}

\* The awaited call fails (the database is unreachable, bcrypt is handed a
\* value it refuses).  No handler has a try/catch: its promise rejects and
\* the handler writes nothing.
AwaitRejects(r) ==
    /\ pc[r] \in AwaitPoints
    /\ pc' = [pc EXCEPT ![r] = "rejected"]
    /\ local' = [local EXCEPT ![r].thrown = "Error"]
    /\ UNCHANGED <<env, now, users, nreq, req, reqUser, res, issued, seq, before, ok201>>

\* ------------------------------------------------------------------- Next
\* The requests the clients send.  A body goes to register and login, which
\* read it; an Authorization header goes to the routes behind authenticate.
BodyRequests ==
    {[method |-> "POST", path |-> p, auth |-> NoHeader,
      name |-> n, email |-> e, password |-> pw] :
        p \in {"/auth/register", "/auth/login"},
        n \in Names, e \in Emails, pw \in Passwords}

HeaderRequests(methods, paths) ==
    {[method |-> m, path |-> p, auth |-> h,
      name |-> "n", email |-> "a@x", password |-> "pw1"] :
        m \in methods, p \in paths, h \in ClientHeaders}

ArriveFrom(r, requests) ==
    \E q \in requests :
        Arrive(r, q.method, q.path, q.auth, q.name, q.email, q.password)

\* the account workload: register, login, the two kinds of gated route and
\* a request no route answers (GET /auth/login)
ArriveAny(r) ==
    ArriveFrom(r, BodyRequests
                  \cup HeaderRequests({"GET"}, {"/auth/users", "/students", "/auth/login"}))

Step(r) ==
    \/ Authenticate(r)
    \/ RegisterFindOne(r)
    \/ RegisterHash(r)
    \/ RegisterCreate(r)
    \/ LoginFindOne(r)
    \/ LoginCompare(r)
    \/ GetAllUsers(r)
    \/ Resource(r)
    \/ NotFound(r)

Next ==
    \/ Tick
    \/ \E r \in Requests : ArriveAny(r) \/ Step(r) \/ AwaitRejects(r)

Spec == Init /\ [][Next]_vars

\* one request at a time, every awaited call succeeding
ArriveAlone(r) == (\A s \in Requests : ~InFlight(s)) /\ ArriveAny(r)

NextSeq ==
    \/ Tick
    \/ \E r \in Requests : ArriveAlone(r) \/ Step(r)

SpecSeq == Init /\ [][NextSeq]_vars

\* the routing workload: every method on every path, with every header
ArriveRoute(r) == ArriveFrom(r, HeaderRequests(Methods, Paths))

NextRoutes == \E r \in Requests : ArriveRoute(r) \/ Step(r)

SpecRoutes == Init /\ [][NextRoutes]_vars

\* ------------------------------------------------------------- the claims
Received(r) == seq[r] > 0
IsRegister(r) == Received(r) /\ req[r].method = "POST" /\ req[r].path = "/auth/register"
IsLogin(r) == Received(r) /\ req[r].method = "POST" /\ req[r].path = "/auth/login"
\* the request goes through authenticate
ThroughMiddleware(r) == Received(r) /\ ~IsRegister(r) /\ ~IsLogin(r)
\* the request is for a gated handler
IsGated(r) ==
    /\ Received(r)
    /\ \/ req[r].path \in ResourcePaths
       \/ req[r].path = "/auth/users" /\ req[r].method = "GET"
\* authenticate has run for the request
PastMiddleware(r) == ThroughMiddleware(r) /\ pc[r] # "authenticate"
HasToken(r) == req[r].auth.present /\ ~Falsy(TokenSegment(req[r].auth))
TokenOf(r) == req[r].auth.segs[2]
HandlerStages == {"resource", "getAllUsers", "notFound"}
MiddlewareMessages == {"No token provided", "Token missing", "Invalid token"}

\* C1: a token that login issued, presented as "Bearer <token>" on a
\* protected request before its expiry, is accepted by the middleware,
\* which attaches the claims login signed; in every configuration of
\* JWT_SECRET, the one without it included.
C1_IssuedTokenAccepted ==
    \A r \in Requests :
        (PastMiddleware(r) /\ HasToken(r) /\ TokenOf(r) \in issued
            /\ now < TokenOf(r).payload.exp)
        => /\ reqUser[r] = {TokenOf(r).payload}
           /\ res[r].message # "Invalid token"

\* C2: for a request with a token segment, authenticate attaches the decoded
\* claims and calls next exactly when the signature verifies against the
\* middleware's secret and the clock is before the token's expiry; otherwise
\* it answers 401 "Invalid token" and next is not called.
C2_ValidIffVerifiedAndFresh ==
    [][\A r \in Requests :
        (pc[r] = "authenticate" /\ pc'[r] # "authenticate" /\ HasToken(r))
        => IF SignatureVerifies(TokenOf(r), MiddlewareSECRET)
              /\ now < TokenOf(r).payload.exp
           THEN /\ reqUser'[r] = {TokenOf(r).payload}
                /\ pc'[r] = Pipeline(req[r].method, req[r].path)[2]
                /\ res'[r] = NoResponse
           ELSE /\ res'[r] = JsonMessage(401, "Invalid token")
                /\ pc'[r] = "done"
                /\ reqUser'[r] = {}]_vars

\* an accepted request next to one refused for expiry alone
C2_Witness ==
    \E r1, r2 \in Requests :
        /\ PastMiddleware(r1) /\ HasToken(r1) /\ reqUser[r1] # {}
        /\ PastMiddleware(r2) /\ HasToken(r2)
        /\ res[r2] = JsonMessage(401, "Invalid token")
        /\ SignatureVerifies(TokenOf(r2), MiddlewareSECRET)
        /\ now >= TokenOf(r2).payload.exp

\* C3: a header without a token segment is answered 401 {message: "Token
\* missing"}; the request ends there, unverified and without next.
C3_TokenMissingAnswered ==
    \A r \in Requests :
        (PastMiddleware(r) /\ req[r].auth.present /\ ~HasToken(r))
        => /\ res[r] = JsonMessage(401, "Token missing")
           /\ pc[r] = "done"
           /\ reqUser[r] = {}

\* C4: a request without Authorization header, on a route behind the
\* middleware, is answered 401 {message: "No token provided"}; req.user
\* stays unset and no handler runs.
C4_NoHeaderRejected ==
    \A r \in Requests :
        (ThroughMiddleware(r) /\ ~req[r].auth.present)
        => /\ pc[r] \in {"authenticate", "done"}
           /\ reqUser[r] = {}
           /\ pc[r] = "done" => res[r] = JsonMessage(401, "No token provided")

C4_Witness ==
    \E r \in Requests :
        /\ IsGated(r) /\ ~req[r].auth.present /\ pc[r] = "done"
        /\ res[r] = JsonMessage(401, "No token provided")

EmailsOf(rows) == {u.email : u \in rows}
WithEmail(e) == {u \in users : u.email = e}

\* C5: of two register requests for one email handled one after the other,
\* the first is answered 201 and the second 400 {message: "Email already
\* exists"}; the second creates no user and leaves the store as it found
\* it, which then holds exactly one user with that email.
C5_SecondRegisterConflicts ==
    /\ \A j \in Requests :
        (IsRegister(j) /\ pc[j] \in Ended /\ seq[j] = nreq)
        => IF req[j].email \in EmailsOf(before[j])
           THEN /\ res[j] = JsonMessage(400, "Email already exists")
                /\ local[j].user = {}
                /\ users = before[j]
                /\ Cardinality(WithEmail(req[j].email)) = 1
           ELSE /\ res[j].status = 201 /\ res[j].sent
                /\ local[j].user = WithEmail(req[j].email)
                /\ users = before[j] \cup local[j].user
                /\ Cardinality(WithEmail(req[j].email)) = 1
    /\ \A i, j \in Requests :
        (/\ IsRegister(i) /\ IsRegister(j) /\ req[i].email = req[j].email
         /\ seq[j] = seq[i] + 1 /\ pc[j] \in Ended
         /\ req[i].email \notin EmailsOf(before[i]))
        => /\ res[i].status = 201
           /\ res[j] = JsonMessage(400, "Email already exists")

C5_Witness ==
    \E i, j \in Requests :
        /\ IsRegister(i) /\ IsRegister(j) /\ req[i].email = req[j].email
        /\ seq[j] = seq[i] + 1
        /\ res[i].status = 201
        /\ res[j] = JsonMessage(400, "Email already exists")
        /\ users = before[j]

\* C6: login hands out a token only for an email of the store whose stored
\* hash the supplied password verifies against, with that user's id and
\* email as claims and status 200; an unknown email is answered 404 "User
\* not found", a wrong password 401 "Invalid email or password", neither
\* with a token; and no step of login changes the store.
C6_LoginIssuesOnlyOnMatch ==
    /\ [](\A r \in Requests :
            res[r].token # {}
            => /\ IsLogin(r) /\ res[r].status = 200
               /\ \E u \in users, t \in res[r].token :
                    /\ u.email = req[r].email
                    /\ BcryptCompare(req[r].password, u.password)
                    /\ res[r].token = {t}
                    /\ t.payload.id = u.id /\ t.payload.email = u.email
                    /\ res[r].user = {[id |-> u.id, email |-> u.email]})
    /\ [][\A r \in Requests :
            /\ (pc[r] = "login" /\ pc'[r] \notin {"login", "rejected"})
               => IF req[r].email \in EmailsOf(users)
                  THEN pc'[r] = "login_compare" /\ res'[r] = NoResponse
                  ELSE pc'[r] = "done" /\ res'[r] = JsonMessage(404, "User not found")
            /\ (pc[r] = "login_compare" /\ pc'[r] \notin {"login_compare", "rejected"})
               => /\ pc'[r] = "done"
                  /\ IF \E u \in users : /\ u.email = req[r].email
                                         /\ BcryptCompare(req[r].password, u.password)
                     THEN res'[r].status = 200 /\ res'[r].token # {}
                     ELSE res'[r] = JsonMessage(401, "Invalid email or password")
            /\ (pc[r] \in {"login", "login_compare"} /\ pc'[r] # pc[r])
               => users' = users]_vars

C6_Witness ==
    \E r1, r2 \in Requests :
        /\ IsLogin(r1) /\ res[r1].status = 200 /\ res[r1].token # {}
        /\ IsLogin(r2) /\ res[r2] = JsonMessage(401, "Invalid email or password")

\* C7: a student, course, teacher or GET /auth/users handler runs only for a
\* request the middleware has authorized (req.user holds the claims of the
\* request's own token); a request to these routes that is not authorized
\* ends with status 401 on its response and no handler; POST /auth/register
\* and POST /auth/login never go through the middleware, header or no header.
C7_RouteGating ==
    \A r \in Requests :
        /\ (IsGated(r) /\ (pc[r] \in HandlerStages \/ (pc[r] = "done" /\ res[r].status # 401)))
           => /\ HasToken(r)
              /\ reqUser[r] = {TokenOf(r).payload}
        /\ (IsGated(r) /\ reqUser[r] = {} /\ pc[r] # "authenticate")
           => /\ pc[r] \in Ended
              /\ res[r].status = 401
              /\ res[r].users = {} /\ res[r].message # "resource"
        /\ (IsRegister(r) \/ IsLogin(r))
           => /\ pc[r] # "authenticate"
              /\ reqUser[r] = {}
              /\ res[r].message \notin MiddlewareMessages
              /\ pc[r] # "threw"

C7_Witness ==
    \E r1, r2 \in Requests :
        /\ IsGated(r1) /\ req[r1].path \in ResourcePaths
        /\ pc[r1] = "done" /\ res[r1].status = 200 /\ reqUser[r1] # {}
        /\ IsLogin(r2) /\ ~req[r2].auth.present /\ res[r2].status = 200

\* C8: a register, login or getAllUsers request whose awaited store or
\* hasher call fails is answered by its handler, once, with a JSON error
\* body: the failure never leaves the handler and no such request ends
\* without a response.
C8_FailuresAnswered ==
    \A r \in Requests :
        /\ pc[r] # "rejected"
        /\ (Received(r) /\ pc[r] \in Ended /\ local[r].thrown # "") => res[r].sent

\* C9: no response of register, login or getAllUsers carries a password or
\* its hash: register and login expose {id, email} of one user, getAllUsers
\* {id, name, email} of each, and every value is the public one.
PublicValues(p) ==
    /\ p.id \in 1..MaxRequests
    /\ p.email \in Emails
    /\ "name" \in DOMAIN p => p.name \in Names

C9_NoPasswordInResponses ==
    \A r \in Requests :
        /\ \A p \in res[r].user : DOMAIN p = {"id", "email"} /\ PublicValues(p)
        /\ \A p \in res[r].users : DOMAIN p = {"id", "name", "email"} /\ PublicValues(p)
        /\ \A t \in res[r].token : DOMAIN t.payload = {"id", "email", "iat", "exp"}
        /\ res[r].message \notin Passwords

C9_Witness ==
    \E r1, r2 \in Requests :
        /\ pc[r1] = "done" /\ res[r1].users # {}
        /\ IsRegister(r2) /\ res[r2].status = 201 /\ res[r2].user # {}

\* C10: however concurrent register requests interleave at their awaits,
\* the store never holds two users with one email, and for one email at
\* most one register request is answered 201.
C10_UniqueEmailUnderRaces ==
    /\ \A u1, u2 \in users : u1.email = u2.email => u1 = u2
    /\ \A e \in Emails : ok201[e] <= 1

\* two registers for one email, both past the lookup: one created the user,
\* the other's create was refused
C10_Witness ==
    \E r1, r2 \in Requests :
        /\ IsRegister(r1) /\ IsRegister(r2) /\ req[r1].email = req[r2].email
        /\ res[r1].status = 201
        /\ pc[r2] = "rejected"
        /\ local[r2].thrown = "SequelizeUniqueConstraintError"

====
